---- MODULE Spec2Model ----
(***************************************************************************)
(* Model of the two pricing scripts of the repository:                     *)
(*   - Hull_and_white_rate_options_pricer.py: build_rate_tree and          *)
(*     price_option (binomial lattice, backward induction, barriers);      *)
(*   - montecarlo_pricer_v1.py: paths_anti and paths_con.                  *)
(*                                                                         *)
(* Floating point numbers are modelled in fixed point: a real x is the     *)
(* integer x*Q, every product is rescaled by Q and rounded down.  Prices   *)
(* of the Monte Carlo script are kept in currency units (S = 100).         *)
(***************************************************************************)
EXTENDS Integers, Sequences, FiniteSets

VARIABLES
    args,           \* the arguments of the call (never written after Init)
    pc,             \* position in the function being executed
    i, j,           \* loop variables (named as in the source)
    tree, dt, dx,   \* build_rate_tree's results
    option_values,  \* price_option's grid, one per exercise/barrier setting
    price,          \* price_option's return value, one per setting
    paths,          \* paths_anti's matrix
    paths_1,        \* paths_con's auxiliary matrix
    paths_2,        \* paths_con's pricing matrix
    c,              \* paths_con's control coefficient
    mean,           \* the scalar either simulator returns
    advanced        \* history: the outer iterations that wrote each column

vars == <<args, pc, i, j, tree, dt, dx, option_values, price,
          paths, paths_1, paths_2, c, mean, advanced>>

latticeVars == <<tree, dt, dx, option_values, price>>
mcVars == <<paths, paths_1, paths_2, c, mean, advanced>>

-----------------------------------------------------------------------------
(* Bounds of the model.                                                    *)

MaxN == 3

MaxNsteps == 2

MaxNsim == 3

\* paths_con is run with at most this many pricing paths.
MaxNsimCon == 2

\* Fixed-point scale: the real 1.0.
Q == 10 * 10 * 10

-----------------------------------------------------------------------------
(* Arithmetic.                                                             *)

Max(x, y) == IF x >= y THEN x ELSE y

RECURSIVE SqrtSearch(_, _, _)
SqrtSearch(n, lo, hi) ==
    IF lo >= hi THEN lo
    ELSE LET mid == (lo + hi + 1) \div 2
         IN IF mid * mid <= n THEN SqrtSearch(n, mid, hi)
            ELSE SqrtSearch(n, lo, mid - 1)

\* np.sqrt of a fixed-point number: floor(sqrt(x/Q) * Q).
Sqrt(x) == SqrtSearch(x * Q, 0, x + Q)

\* np.exp of a fixed-point number: 1 + x + x^2/2, which is positive for
\* every x (it is ((1+x)^2 + 1)/2), below 1 for small x < 0, above 1 for x > 0.
Exp(x) == Q + x + (x * x) \div (2 * Q)

RECURSIVE SumSeq(_)
SumSeq(s) == IF s = <<>> THEN 0 ELSE Head(s) + SumSeq(Tail(s))

-----------------------------------------------------------------------------
(* Hull_and_white_rate_options_pricer.py                                   *)

\* range(N + 1) with a wrong upper limit.
LevelsOffByOne(n) == 1 .. n

\* for i in range(N + 1): the levels of the tree, as 1-based positions
\* (position k holds level i = k - 1).
Levels(n) == 1 .. (n + 1)

\* rate = r0 + (2 * j - i) * dx
Rate(r0, ii, jj, ddx) == r0 + (2 * jj - ii) * ddx

\* tree: a sequence of levels, level i a sequence of i + 1 rates.
RateTree(r0, n, ddx) ==
    [k \in Levels(n) |-> [m \in 1 .. k |-> Rate(r0, k - 1, m - 1, ddx)]]

\* tree[i][j] with the source's 0-based indices.
TreeAt(t, ii, jj) == t[ii + 1][jj + 1]

\* intrinsic = (r - strike) if is_call else (strike - r)
Intrinsic(r, strike, is_call) == IF is_call THEN r - strike ELSE strike - r

\* The terminal payoff without its floor at 0.
TerminalValueNoFloor(r, strike, is_call) == Intrinsic(r, strike, is_call)

\* option_values[N][j] = max(intrinsic, 0)
TerminalValue(r, strike, is_call) == Max(Intrinsic(r, strike, is_call), 0)

\* p = 0.5
P == Q \div 2

\* disc = np.exp(-tree[i][j] * dt)
Disc(r, ddt) == Exp((-(r * ddt)) \div Q)

\* continuation = disc * (p * up + (1 - p) * down)
Continuation(r, ddt, up, down) ==
    (Disc(r, ddt) * ((P * up + (Q - P) * down) \div Q)) \div Q

\* A Bermudan node that takes the intrinsic value and forgets the continuation.
NodeValueExerciseOnly(continuation, r, strike, is_call, is_bermudan) ==
    IF is_bermudan THEN Max(Intrinsic(r, strike, is_call), 0)
    ELSE continuation

\* The value of an interior node before the barrier is applied.
NodeValue(continuation, r, strike, is_call, is_bermudan) ==
    IF is_bermudan
    THEN Max(continuation, Max(Intrinsic(r, strike, is_call), 0))
    ELSE continuation

BarrierTypes == {"Down In", "Up In", "Down Out", "Up Out"}

\* A knocked node that is given the barrier level instead of 0.
AfterBarrierAssignsLevel(val, r, is_barrier, barrier_type, barrier) ==
    IF is_barrier /\ barrier_type # "None"
    THEN IF barrier_type \in {"Down In", "Up In"}
         THEN IF ~(IF barrier_type = "Down In" THEN r <= barrier ELSE r >= barrier)
              THEN barrier ELSE val
         ELSE IF barrier_type \in {"Down Out", "Up Out"}
              THEN IF (IF barrier_type = "Down Out" THEN r <= barrier ELSE r >= barrier)
                   THEN barrier ELSE val
              ELSE val
    ELSE val

\* The Out barriers tested with a strict comparison.
AfterBarrierStrictOut(val, r, is_barrier, barrier_type, barrier) ==
    IF is_barrier /\ barrier_type # "None"
    THEN IF barrier_type \in {"Down In", "Up In"}
         THEN IF ~(IF barrier_type = "Down In" THEN r <= barrier ELSE r >= barrier)
              THEN 0 ELSE val
         ELSE IF barrier_type \in {"Down Out", "Up Out"}
              THEN IF (IF barrier_type = "Down Out" THEN r < barrier ELSE r > barrier)
                   THEN 0 ELSE val
              ELSE val
    ELSE val

\* The barrier block that follows each write of option_values.
AfterBarrier(val, r, is_barrier, barrier_type, barrier) ==
    IF is_barrier /\ barrier_type # "None"
    THEN IF barrier_type \in {"Down In", "Up In"}
         THEN IF ~(IF barrier_type = "Down In" THEN r <= barrier ELSE r >= barrier)
              THEN 0 ELSE val
         ELSE IF barrier_type \in {"Down Out", "Up Out"}
              THEN IF (IF barrier_type = "Down Out" THEN r <= barrier ELSE r >= barrier)
                   THEN 0 ELSE val
              ELSE val
    ELSE val

\* The calls that are compared: the same arguments under each exercise style,
\* with and without the barrier switched on.
Settings == [is_barrier : BOOLEAN, is_bermudan : BOOLEAN]

\* np.zeros((N + 1, N + 1))
Zeros(n) == [ii \in 0 .. n |-> [jj \in 0 .. n |-> 0]]

LatticeArgs ==
    [r0 : {-20, 25, 30}, a : {100}, sigma : {10, 50}, T : {Q, 2 * Q},
     N : 0 .. MaxN, strike : {20, 40}, barrier_type : BarrierTypes \cup {"None"},
     barrier : {15, 30, 45}, is_call : BOOLEAN]

Init ==
    /\ args \in LatticeArgs
    /\ pc = "build_rate_tree"
    /\ i = 0 /\ j = 0
    /\ tree = <<>> /\ dt = 0 /\ dx = 0
    /\ option_values = [s \in Settings |-> <<>>]
    /\ price = [s \in Settings |-> 0]
    /\ paths = <<>> /\ paths_1 = <<>> /\ paths_2 = <<>>
    /\ c = 0 /\ mean = 0 /\ advanced = <<>>

\* build_rate_tree, then option_values = np.zeros(...). dt = T / N raises
\* ZeroDivisionError when N = 0, before any level is built.
BuildRateTree ==
    /\ pc = "build_rate_tree"
    /\ IF args.N = 0
       THEN /\ pc' = "ZeroDivisionError"
            /\ UNCHANGED <<tree, dt, dx, option_values, j>>
       ELSE LET ddt == args.T \div args.N
                ddx == (args.sigma * Sqrt(ddt)) \div Q
            IN /\ dt' = ddt
               /\ dx' = ddx
               /\ tree' = RateTree(args.r0, args.N, ddx)
               /\ option_values' = [s \in Settings |-> Zeros(args.N)]
               /\ pc' = "terminal"
               /\ j' = 0
    /\ UNCHANGED <<args, i, price, mcVars>>

\* One iteration of: for j in range(N + 1)  (terminal payoff).
TerminalPayoff ==
    /\ pc = "terminal"
    /\ LET r == TreeAt(tree, args.N, j)
       IN option_values' =
            [s \in Settings |->
               [option_values[s] EXCEPT ![args.N][j] =
                  AfterBarrier(TerminalValue(r, args.strike, args.is_call), r,
                               s.is_barrier, args.barrier_type, args.barrier)]]
    /\ IF j < args.N
       THEN j' = j + 1 /\ UNCHANGED <<pc, i>>
       ELSE pc' = "induction" /\ i' = args.N - 1 /\ j' = 0
    /\ UNCHANGED <<args, tree, dt, dx, price, mcVars>>

\* One iteration of: for i in range(N - 1, -1, -1): for j in range(i + 1).
BackwardStep ==
    /\ pc = "induction"
    /\ LET r == TreeAt(tree, i, j)
       IN option_values' =
            [s \in Settings |->
               LET continuation ==
                     Continuation(r, dt, option_values[s][i + 1][j + 1],
                                  option_values[s][i + 1][j])
               IN [option_values[s] EXCEPT ![i][j] =
                     AfterBarrier(
                       NodeValue(continuation, r, args.strike, args.is_call,
                                 s.is_bermudan),
                       r, s.is_barrier, args.barrier_type, args.barrier)]]
    /\ IF j < i
       THEN j' = j + 1 /\ UNCHANGED <<pc, i>>
       ELSE IF i > 0
            THEN i' = i - 1 /\ j' = 0 /\ UNCHANGED pc
            ELSE pc' = "return" /\ UNCHANGED <<i, j>>
    /\ UNCHANGED <<args, tree, dt, dx, price, mcVars>>

\* return option_values[0][0]
Return ==
    /\ pc = "return"
    /\ price' = [s \in Settings |-> option_values[s][0][0]]
    /\ pc' = "done"
    /\ UNCHANGED <<args, i, j, tree, dt, dx, option_values, mcVars>>

Next == BuildRateTree \/ TerminalPayoff \/ BackwardStep \/ Return

Spec == Init /\ [][Next]_vars

-----------------------------------------------------------------------------
(* montecarlo_pricer_v1.py                                                 *)

\* K = 110, the module-level strike both simulators read.
K == 110

\* np.random.normal(): the draws the model takes, -1.0 and +1.0.
Normals == {-Q, Q}

\* The accumulated float64 rounding error of np.mean, in units of the grid:
\* the sum of n equal floats divided by n need not return the float
\* ((0.1 + 0.1 + 0.1) / 3 is 0.10000000000000002).
RoundErr == {-1, 0, 1}

\* The outer range as it was meant: (Nsim + 1) // 2.
AntiOuterRangeHalf(Nsim) == (Nsim + 1) \div 2

\* range(Nsim+1//2): // binds tighter than +, so the limit is Nsim + (1 // 2).
AntiOuterRange(Nsim) == Nsim + (1 \div 2)

\* A negative column index -j counts from the end; -0 is 0.
NegIndex(jj, Nsim) == IF jj = 0 THEN 0 ELSE Nsim - jj

\* Only the first column of row 0 is set to S.
InitialPathsFirstColumn(S, Nsteps, n) ==
    [row \in 0 .. Nsteps |->
        [col \in 0 .. (n - 1) |-> IF row = 0 /\ col = 0 THEN S ELSE 0]]

\* paths = np.zeros((Nsteps+1, n)); paths[0,:] = S
InitialPaths(S, Nsteps, n) ==
    [row \in 0 .. Nsteps |-> [col \in 0 .. (n - 1) |-> IF row = 0 THEN S ELSE 0]]

\* v * np.exp(dt*(r-0.5*sigma**2) + sign*sigma*np.sqrt(dt)*random)
Gbm(v, ddt, r, sigma, sign, random) ==
    LET drift == (ddt * (r - ((sigma * sigma) \div Q) \div 2)) \div Q
        shock == (((sigma * Sqrt(ddt)) \div Q) * random) \div Q
    IN (v * Exp(drift + sign * shock)) \div Q

\* np.maximum(option*(paths[-1,:]-K), 0)
Payoffs(option, m, Nsteps, n) ==
    [col \in 1 .. n |-> Max(option * (m[Nsteps][col - 1] - K), 0)]

\* np.mean of a sequence (exact up to the grid).
Mean(s) == SumSeq(s) \div Len(s)

\* One entry of np.cov(X) (rows are variables, columns observations,
\* ddof = 1), the row means taken with rounding errors ea and eb.
Cov(X, ra, rb, ea, eb) ==
    LET n == Len(X[ra])
        avga == Mean(X[ra]) + ea
        avgb == Mean(X[rb]) + eb
    IN SumSeq([k \in 1 .. n |-> (X[ra][k] - avga) * (X[rb][k] - avgb)]) \div (n - 1)

\* np.cov(paths_1, payoffs_1): the rows of paths_1 followed by payoffs_1,
\* as a 1-based sequence of rows (row index a of numpy is position a + 1).
Stacked(m, payoffs, Nsteps, n) ==
    [a \in 1 .. (Nsteps + 2) |->
        IF a <= Nsteps + 1 THEN [col \in 1 .. n |-> m[a - 1][col - 1]] ELSE payoffs]

\* The covariance of the terminal row of paths_1 with payoffs_1.
CovReadTerminal(m, payoffs, Nsteps, n, ea, eb) ==
    Cov(Stacked(m, payoffs, Nsteps, n), Nsteps + 1, Nsteps + 2, ea, eb)

\* cov = np.cov(paths_1, payoffs_1)[1,0]: the entry of rows 1 and 0 of paths_1.
CovRead(m, payoffs, Nsteps, n, ea, eb) ==
    Cov(Stacked(m, payoffs, Nsteps, n), 2, 1, ea, eb)

\* var_z = S ** 2 * np.exp(2 * r * T) * (np.exp(T * sigma ** 2) - 1)
VarZ(S, r, sigma, T) ==
    (((S * S * Exp((2 * r * T) \div Q)) \div Q)
        * (Exp((T * ((sigma * sigma) \div Q)) \div Q) - Q)) \div Q

\* c = -cov/var_z
Coefficient(cov, var_z) == -((cov * Q) \div var_z)

\* exp_z = S * np.exp(r*T)
ExpZ(S, r, T) == (S * Exp((r * T) \div Q)) \div Q

\* np.exp(-r*T)
Discount(r, T) == Exp((-(r * T)) \div Q)

\* mean = np.exp(-r*T)*np.mean(payoffs)   (paths_anti)
AntiMean(option, m, r, T, Nsteps, n) ==
    (Discount(r, T) * SumSeq(Payoffs(option, m, Nsteps, n))) \div n

\* The adjustment taken per path from that path's terminal price.
ConMeanPerPath(option, m, S, r, T, Nsteps, n, cc) ==
    LET payoffs_2 == [col \in 1 .. n |->
                        Payoffs(option, m, Nsteps, n)[col] * Discount(r, T)]
    IN Mean([col \in 1 .. n |-> payoffs_2[col] + cc * (S - m[Nsteps][col - 1])])

\* payoffs_2 = np.maximum(...) * np.exp(-r*T)
\* mean = np.mean(payoffs_2 + c * (S - exp_z))
ConMean(option, m, S, r, T, Nsteps, n, cc) ==
    LET payoffs_2 == [col \in 1 .. n |->
                        Payoffs(option, m, Nsteps, n)[col] * Discount(r, T)]
    IN Mean([col \in 1 .. n |-> payoffs_2[col] + cc * (S - ExpZ(S, r, T))])

MCArgs ==
    [fn : {"paths_anti"}, option : {1, -1}, S : {100}, r : {30}, sigma : {250},
     T : {Q}, Nsteps : 1 .. MaxNsteps, Nsim : 1 .. MaxNsim, Nopti : {0}]
    \cup
    [fn : {"paths_con"}, option : {1, -1}, S : {100}, r : {30}, sigma : {250},
     T : {Q}, Nsteps : 1 .. MaxNsteps, Nsim : 1 .. MaxNsimCon, Nopti : {2}]

InitMC ==
    /\ args \in MCArgs
    /\ pc = args.fn
    /\ i = 0 /\ j = 0
    /\ tree = <<>> /\ dt = 0 /\ dx = 0
    /\ option_values = <<>>
    /\ price = <<>>
    /\ paths = <<>> /\ paths_1 = <<>> /\ paths_2 = <<>>
    /\ c = 0 /\ mean = 0 /\ advanced = <<>>

\* The loop header: for j in range(limit): for i in range(Nsteps), after
\* the body has run for (j, i); `after` is the position that follows the loop.
LoopAdvance(limit, after) ==
    IF i < args.Nsteps - 1
    THEN i' = i + 1 /\ UNCHANGED <<j, pc>>
    ELSE IF j < limit - 1
         THEN j' = j + 1 /\ i' = 0 /\ UNCHANGED pc
         ELSE pc' = after /\ UNCHANGED <<i, j>>

\* paths_anti, lines 19-21.
AntiStart ==
    /\ pc = "paths_anti"
    /\ dt' = args.T \div args.Nsteps
    /\ paths' = InitialPaths(args.S, args.Nsteps, args.Nsim)
    /\ advanced' = [col \in 0 .. (args.Nsim - 1) |-> {}]
    /\ i' = 0 /\ j' = 0
    /\ pc' = "anti_loop"
    /\ UNCHANGED <<args, tree, dx, option_values, price, paths_1, paths_2, c, mean>>

\* One iteration of the inner loop of paths_anti, lines 25-27: the second
\* assignment is made after the first one (and overwrites it when -j is j).
AntiStep ==
    /\ pc = "anti_loop"
    /\ \E random \in Normals :
         LET m == NegIndex(j, args.Nsim)
             first == [paths EXCEPT ![i + 1][j] =
                         Gbm(paths[i][j], dt, args.r, args.sigma, 1, random)]
         IN paths' = [first EXCEPT ![i + 1][m] =
                         Gbm(first[i][m], dt, args.r, args.sigma, -1, random)]
    /\ advanced' = [col \in DOMAIN advanced |->
                      IF col \in {j, NegIndex(j, args.Nsim)}
                      THEN advanced[col] \cup {j} ELSE advanced[col]]
    /\ LoopAdvance(AntiOuterRange(args.Nsim), "anti_payoff")
    /\ UNCHANGED <<args, tree, dt, dx, option_values, price, paths_1, paths_2, c, mean>>

\* paths_anti, lines 28-30.
AntiReturn ==
    /\ pc = "anti_payoff"
    /\ mean' = AntiMean(args.option, paths, args.r, args.T, args.Nsteps, args.Nsim)
    /\ pc' = "done"
    /\ UNCHANGED <<args, i, j, latticeVars, paths, paths_1, paths_2, c, advanced>>

\* paths_con, lines 35-39.
ConStart ==
    /\ pc = "paths_con"
    /\ dt' = args.T \div args.Nsteps
    /\ paths_1' = InitialPaths(args.S, args.Nsteps, args.Nopti)
    /\ paths_2' = InitialPaths(args.S, args.Nsteps, args.Nsim)
    /\ i' = 0 /\ j' = 0
    /\ pc' = "con_aux"
    /\ UNCHANGED <<args, tree, dx, option_values, price, paths, c, mean, advanced>>

\* One iteration of the inner loop over the auxiliary paths, lines 43-44.
ConAuxStep ==
    /\ pc = "con_aux"
    /\ \E random \in Normals :
         paths_1' = [paths_1 EXCEPT ![i + 1][j] =
                       Gbm(paths_1[i][j], dt, args.r, args.sigma, 1, random)]
    /\ LoopAdvance(args.Nopti, "con_coeff")
    /\ UNCHANGED <<args, tree, dt, dx, option_values, price, paths, paths_2, c, mean, advanced>>

\* paths_con, lines 45-49: the control coefficient.
ConCoefficient ==
    /\ pc = "con_coeff"
    /\ \E ea, eb \in RoundErr :
         c' = Coefficient(
                CovRead(paths_1, Payoffs(args.option, paths_1, args.Nsteps, args.Nopti),
                        args.Nsteps, args.Nopti, ea, eb),
                VarZ(args.S, args.r, args.sigma, args.T))
    /\ i' = 0 /\ j' = 0
    /\ pc' = "con_sim"
    /\ UNCHANGED <<args, latticeVars, paths, paths_1, paths_2, mean, advanced>>

\* One iteration of the inner loop over the pricing paths, lines 53-54.
ConSimStep ==
    /\ pc = "con_sim"
    /\ \E random \in Normals :
         paths_2' = [paths_2 EXCEPT ![i + 1][j] =
                       Gbm(paths_2[i][j], dt, args.r, args.sigma, 1, random)]
    /\ LoopAdvance(args.Nsim, "con_price")
    /\ UNCHANGED <<args, tree, dt, dx, option_values, price, paths, paths_1, c, mean, advanced>>

\* paths_con, lines 56-58.
ConReturn ==
    /\ pc = "con_price"
    /\ mean' = ConMean(args.option, paths_2, args.S, args.r, args.T,
                       args.Nsteps, args.Nsim, c)
    /\ pc' = "done"
    /\ UNCHANGED <<args, i, j, latticeVars, paths, paths_1, paths_2, c, advanced>>

NextMC ==
    \/ AntiStart \/ AntiStep \/ AntiReturn
    \/ ConStart \/ ConAuxStep \/ ConCoefficient \/ ConSimStep \/ ConReturn

SpecMC == InitMC /\ [][NextMC]_vars

-----------------------------------------------------------------------------
(* Properties of price_option and build_rate_tree.                         *)

\* The nodes of the lattice, and those that have received their value.
Nodes == {n \in (0 .. args.N) \X (0 .. args.N) : n[2] <= n[1]}

Written(ii, jj) ==
    \/ pc \in {"return", "done"}
    \/ pc = "induction" /\ (ii > i \/ (ii = i /\ jj < j))
    \/ pc = "terminal" /\ ii = args.N /\ jj < j

GridBuilt == pc \in {"terminal", "induction", "return", "done"}

Setting(bar, berm) == [is_barrier |-> bar, is_bermudan |-> berm]

\* C1: every entry of the option value grid is >= 0 after every write of the
\* terminal step and of the backward induction, and so is the returned
\* price, for every exercise style and every barrier setting.
C1_PriceNonNegative ==
    /\ GridBuilt =>
         \A s \in Settings : \A ii, jj \in 0 .. args.N :
            option_values[s][ii][jj] >= 0
    /\ \A s \in Settings : price[s] >= 0

\* A call with a negative short rate at the root returns a positive price
\* under an active barrier.
C1_Witness ==
    /\ pc = "done"
    /\ args.r0 < 0
    /\ args.barrier_type \in BarrierTypes
    /\ price[Setting(TRUE, FALSE)] > 0

\* C2: with all other arguments equal (active barrier included), the price
\* returned with is_bermudan = True is >= the price with is_bermudan = False.
C2_BermudanAtLeastEuropean ==
    pc = "done" =>
        \A bar \in BOOLEAN : price[Setting(bar, TRUE)] >= price[Setting(bar, FALSE)]

\* Early exercise strictly raises the price, with and without a barrier.
C2_Witness ==
    /\ pc = "done"
    /\ args.barrier_type \in BarrierTypes
    /\ price[Setting(TRUE, TRUE)] > price[Setting(TRUE, FALSE)]
    /\ price[Setting(FALSE, TRUE)] > price[Setting(FALSE, FALSE)]

\* C3: for each of the four barrier types, any level and both exercise
\* styles, the price with the barrier active is <= the price with no barrier.
C3_BarrierAtMostNoBarrier ==
    (pc = "done" /\ args.barrier_type \in BarrierTypes) =>
        \A berm \in BOOLEAN : price[Setting(TRUE, berm)] <= price[Setting(FALSE, berm)]

\* The barrier removes part, but not all, of the value.
C3_Witness ==
    /\ pc = "done"
    /\ args.barrier_type \in BarrierTypes
    /\ price[Setting(TRUE, TRUE)] > 0
    /\ price[Setting(TRUE, TRUE)] < price[Setting(FALSE, TRUE)]

\* The barrier policy in the words of the claim, for a node of rate v.
Knocked(barrier_type, v, B) ==
    CASE barrier_type = "Down In" -> ~(v <= B)
      [] barrier_type = "Up In" -> ~(v >= B)
      [] barrier_type = "Down Out" -> v <= B
      [] barrier_type = "Up Out" -> v >= B

\* The value of node (ii, jj) before the barrier: the floored intrinsic value
\* at maturity, the continuation (or its maximum with the floored intrinsic
\* value, Bermudan) before.
Computed(s, ii, jj) ==
    LET v == args.r0 + (2 * jj - ii) * dx
        floored == Max(IF args.is_call THEN v - args.strike ELSE args.strike - v, 0)
    IN IF ii = args.N THEN floored
       ELSE LET cont == Continuation(v, dt, option_values[s][ii + 1][jj + 1],
                                     option_values[s][ii + 1][jj])
            IN IF s.is_bermudan THEN Max(cont, floored) ELSE cont

\* C10: with a barrier active, every node that has been valued (terminal or
\* interior, the root included) holds 0 if the policy knocks it at its own
\* rate, and otherwise its computed value (after the Bermudan maximum).
C10_BarrierAtEveryNode ==
    (GridBuilt /\ args.barrier_type \in BarrierTypes) =>
        \A s \in {t \in Settings : t.is_barrier} : \A n \in Nodes :
            Written(n[1], n[2]) =>
                option_values[s][n[1]][n[2]] =
                    IF Knocked(args.barrier_type, args.r0 + (2 * n[2] - n[1]) * dx,
                               args.barrier)
                    THEN 0 ELSE Computed(s, n[1], n[2])

\* A Bermudan run where the root is knocked although its computed value is
\* positive, and an interior node below maturity keeps a positive value.
C10_Witness ==
    /\ pc = "done"
    /\ args.barrier_type \in BarrierTypes
    /\ LET s == Setting(TRUE, TRUE)
       IN /\ Knocked(args.barrier_type, args.r0, args.barrier)
          /\ Computed(s, 0, 0) > 0
          /\ option_values[s][0][0] = 0
          /\ \E n \in Nodes :
                /\ n[1] < args.N
                /\ ~Knocked(args.barrier_type, args.r0 + (2 * n[2] - n[1]) * dx,
                            args.barrier)
                /\ option_values[s][n[1]][n[2]] > 0

\* C7 as stated: with N = 0 the builder raises nothing and returns a lattice
\* of one level holding the one rate r0.
C7_SingleNodeAtZero ==
    (args.N = 0 /\ pc # "build_rate_tree") =>
        (pc # "ZeroDivisionError" /\ tree = << <<args.r0>> >>)

\* C7, amended: with N = 0 the builder raises ZeroDivisionError and no
\* lattice exists; with N >= 1 it raises nothing and returns N + 1 levels,
\* level i holding i + 1 rates and level 0 the one rate r0.
C7_ZeroStepsRaises ==
    pc # "build_rate_tree" =>
        IF args.N = 0
        THEN pc = "ZeroDivisionError" /\ tree = <<>>
        ELSE /\ pc # "ZeroDivisionError"
             /\ Len(tree) = args.N + 1
             /\ \A k \in 1 .. Len(tree) : Len(tree[k]) = k
             /\ tree[1] = <<args.r0>>

\* The call with N = 0 has stopped in build_rate_tree.
C7_Witness == args.N = 0 /\ pc = "ZeroDivisionError" /\ tree = <<>>

-----------------------------------------------------------------------------
(* Properties of paths_anti and paths_con.                                 *)

IsAnti == args.fn = "paths_anti"
IsCon == args.fn = "paths_con"

\* The matrix the running function returns.
Returned == IF IsAnti THEN paths ELSE paths_2

\* C4 as stated: paths_anti runs floor((Nsim+1)/2) outer iterations, and no
\* column is advanced in more than one of them.
C4_HalfPairedIterations ==
    (IsAnti /\ pc = "done") =>
        /\ Cardinality(UNION {advanced[col] : col \in DOMAIN advanced})
              = (args.Nsim + 1) \div 2
        /\ \A col \in DOMAIN advanced : Cardinality(advanced[col]) <= 1

\* C5 as stated: c is -Cov(S_T, payoff)/Var(S_T), the covariance taken over
\* the Nopti auxiliary paths between the last row of paths_1 and the payoffs
\* (for some rounding of the two means).
C5_CoefficientFromTerminalCov ==
    (IsCon /\ pc \in {"con_sim", "con_price", "done"}) =>
        \E ea, eb \in RoundErr :
            c = Coefficient(
                  CovReadTerminal(paths_1,
                                  Payoffs(args.option, paths_1, args.Nsteps, args.Nopti),
                                  args.Nsteps, args.Nopti, ea, eb),
                  VarZ(args.S, args.r, args.sigma, args.T))

C8_AllEntriesPositive ==
    (pc = "done" /\ (IsAnti \/ IsCon)) =>
        \A row \in 0 .. args.Nsteps : \A col \in 0 .. (args.Nsim - 1) :
            /\ Returned[row][col] > 0
            /\ row >= 1 =>
                 \E random \in Normals : \E sign \in {1, -1} :
                    Returned[row][col] =
                        Gbm(Returned[row - 1][col], dt, args.r, args.sigma, sign, random)

\* paths_anti has returned for an even Nsim, every column written, the last
\* one only through its negative index in the first iterations.
C8_Witness ==
    /\ pc = "done" /\ IsAnti
    /\ args.Nsim = 2 /\ args.Nsteps = 2
    /\ \A col \in DOMAIN advanced : advanced[col] # {}
    /\ paths[2][1] # paths[2][0]

\* C9: from the moment the matrices exist, row 0 of each of them is S in
\* every column, whatever the simulation steps have written.
C9_RowZeroIsS ==
    /\ (IsAnti /\ pc \notin {"paths_anti"}) =>
          \A col \in 0 .. (args.Nsim - 1) : paths[0][col] = args.S
    /\ (IsCon /\ pc \notin {"paths_con"}) =>
          /\ \A col \in 0 .. (args.Nsim - 1) : paths_2[0][col] = args.S
          /\ \A col \in 0 .. (args.Nopti - 1) : paths_1[0][col] = args.S

\* paths_anti has returned after mirrored writes through negative indices
\* that moved the last column away from S.
C9_Witness ==
    /\ pc = "done" /\ IsAnti
    /\ args.Nsim >= 2
    /\ paths[1][args.Nsim - 1] # args.S
    /\ paths[0][args.Nsim - 1] = args.S

====
